---- MODULE Spec2Model ----
(***************************************************************************)
(* Model of courier-lhc-publications.py: the three INSPIRE query           *)
(* functions (paged literature search, count, aggregation), the backoff    *)
(* decorator that wraps them, and the consumer of the search generator.    *)
(* The remote server is the environment: it answers every request with a   *)
(* status and a JSON body of its choice.                                   *)
(***************************************************************************)
EXTENDS Integers, Sequences, FiniteSets, TLC

(* ------------------------------ bounds -------------------------------- *)
\* the server serves at most MaxPages pages to one search
MaxPages == 3
\* a page carries at most MaxHits records
MaxHits == 2

(* ------------------------- program constants -------------------------- *)
INSPIRE_LITERATURE_API_ENDPOINT == "https://inspirehep.net/api/literature"
INSPIRE_FACET_API_ENDPOINT == "https://inspirehep.net/api/literature/facets"
\* max_tries of the on_exception decorators
MaxTries == 10

(* ------------------------ Python dictionaries ------------------------- *)
\* {} : the dictionary without keys
EmptyDict == [k \in {} |-> 0]
\* {**a, **b} : the entries of b replace those of a
DictMerge(a, b) ==
    [k \in (DOMAIN a) \cup (DOMAIN b) |-> IF k \in DOMAIN b THEN b[k] ELSE a[k]]
\* d.get(k, {})
GetOrEmpty(d, k) == IF k \in DOMAIN d THEN d[k] ELSE EmptyDict

(* ---------------------- arguments of the callers ---------------------- *)
Queries == {"cn alice and tc p", "tc core"}
\* the facets argument: None (the default) or a dictionary of strings
NoneFacets == [given |-> FALSE, map |-> EmptyDict]
SomeFacets(m) == [given |-> TRUE, map |-> m]
FacetMaps ==
    { EmptyDict,
      "earliest_date" :> "2008--2020",
      ("earliest_date" :> "2008--2008") @@ ("size" :> "25"),
      ("facet_name" :> "citation-summary") @@ ("q" :> "cn cms") }
FacetArgs == {NoneFacets} \cup {SomeFacets(m) : m \in FacetMaps}

(* ------------------------ the server's answers ------------------------ *)
Statuses == {200, 302, 404, 503}
\* a status the server means as an HTTP error (4xx, 5xx)
IsErrorStatus(s) == s >= 400
NextUrls == {"next-a", "next-b"}
Totals == {42}
\* the records of the p-th page the server serves: n distinct records
Recs(p, n) == [j \in 1..n |-> <<p, j>>]
OptField(k, S) == {EmptyDict} \cup {k :> v : v \in S}
HitsDicts(p) ==
    { DictMerge(t, h) : t \in OptField("total", Totals),
                        h \in OptField("hits", {Recs(p, n) : n \in 0..MaxHits}) }
LinksDicts == OptField("next", NextUrls)
LitBodies(p) ==
    { DictMerge(h, l) : h \in OptField("hits", HitsDicts(p)),
                        l \in OptField("links", LinksDicts) }
Stats(c, a) ==
    [citations |-> [buckets |-> [all |->
        [citations_count |-> [value |-> c], average_citations |-> [value |-> a]]]]]
Aggs ==
    { [citation_summary |-> Stats(120, 12)],
      [citation_summary |-> Stats(7, 1), earliest_date |-> Stats(0, 0)] }
FacetBodies ==
    { DictMerge(a, l) : a \in OptField("aggregations", Aggs),
                        l \in {EmptyDict, "links" :> ("next" :> "next-a")} }
ErrorBody == [message |-> "error"]
\* the bodies the server may send with status s to a request for url, when
\* p-1 pages were served before
ServerBodies(url, p, s) ==
    IF IsErrorStatus(s) THEN {ErrorBody}
    ELSE IF url = INSPIRE_FACET_API_ENDPOINT THEN FacetBodies
    ELSE LitBodies(p)
ServerResponses(url, p) ==
    UNION { {[status |-> s, body |-> b] : b \in ServerBodies(url, p, s)} :
            s \in Statuses }

(* ------------------------------- state -------------------------------- *)
VARIABLES
    op,         \* the function being called: "idle", "search", "count", "aggregate"
    query,      \* its query argument
    facets,     \* its facets argument
    pc,         \* position of the call (of the generator, for "search")
    tries,      \* the decorator's count of calls of the wrapped function
    waits,      \* the nominal delays the decorator has slept, in order
    requests,   \* the GET requests of this call, in order
    status,     \* status of the last response (0: none yet)
    nerr,       \* number of error-status responses the server gave this call
    content,    \* the code's variable content: the last body parsed
    idx,        \* number of records of content the generator has yielded
    pulls,      \* number of times the consumer asked the generator for a record
    delivered,  \* the records the consumer received, in order
    pages,      \* the well-formed pages the server served, in order
    outcome,    \* "none", "returned", "StopIteration", "HTTPError", "KeyError"
    result,     \* the value returned by count / aggregate
    prevNerr,   \* number of error-status responses the previous call absorbed
    years,      \* the configured year range (YEARS), in iteration order
    rpc,        \* position of print_results ("off": not running)
    section,    \* index of the query print_results is at, annual ones first
    yearIdx,    \* index in years of the year annual_counts is at
    rows,       \* the (year, count) pairs format_annual_counts has appended
    callLog,    \* the calls made for the current section: arguments and value
    printed,    \* the sections written to standard output, in order
    graph       \* a server with fixed content: the page behind each URL

\* the variables of one call of a query function
cvars == <<op, query, facets, pc, tries, waits, requests, status, nerr, content,
           idx, pulls, delivered, pages, outcome, result>>
\* the variables of the callers and of the histories kept across calls
xvars == <<prevNerr, years, rpc, section, yearIdx, rows, callLog, printed, graph>>
vars == <<cvars, xvars>>

NoResult == EmptyDict
\* YEARS = range(2008, 2021)
FirstYear == 2008
StopYear == 2021
Range(a, b) == [i \in 1..(b - a) |-> a + i - 1]
YEARS == Range(FirstYear, StopYear)

\* no call is running
InitCall ==
    /\ op = "idle"
    /\ query = "tc core"
    /\ facets = NoneFacets
    /\ pc = "idle"
    /\ tries = 0
    /\ waits = <<>>
    /\ requests = <<>>
    /\ status = 0
    /\ nerr = 0
    /\ content = EmptyDict
    /\ idx = 0
    /\ pulls = 0
    /\ delivered = <<>>
    /\ pages = <<>>
    /\ outcome = "none"
    /\ result = NoResult
\* print_results is not running, nothing is kept from earlier calls
InitIdleCallers ==
    /\ prevNerr = 0
    /\ years = YEARS
    /\ rpc = "off"
    /\ section = 0
    /\ yearIdx = 0
    /\ rows = <<>>
    /\ callLog = <<>>
    /\ printed = <<>>
    /\ graph = EmptyDict
Init == InitCall /\ InitIdleCallers

(* --------------------------- code helpers ----------------------------- *)
\* facets = facets or {}
FacetsOr(f) == IF f.given /\ DOMAIN f.map # {} THEN f.map ELSE EmptyDict
\* response.raise_for_status(): raises HTTPError for 4xx and 5xx
\* (variant: only 5xx raises)
RaiseForServerErrorOnly(s) == 500 <= s /\ s < 600
RaiseForNot200(s) == s # 200
RaiseForStatus(s) == 400 <= s /\ s < 600
\* params={"q": query, **facets}
SearchParams(q, f) == DictMerge("q" :> q, FacetsOr(f))
\* params={"q": query, "size": 1, **facets}
CountParams(q, f) == DictMerge(("q" :> q) @@ ("size" :> "1"), FacetsOr(f))
\* "next" in content.get("links", {})
HasNext(c) == "next" \in DOMAIN GetOrEmpty(c, "links")
\* content["hits"]["hits"] raises KeyError when a key is missing
HasHitsHits(c) == "hits" \in DOMAIN c /\ "hits" \in DOMAIN c["hits"]
\* content["hits"]["total"]
HasHitsTotal(c) == "hits" \in DOMAIN c /\ "total" \in DOMAIN c["hits"]
\* session.get(content["links"]["next"])
\* (variant: the endpoint is requested again instead of the next link)
NextRequestSameEndpoint(c) ==
    [url |-> INSPIRE_LITERATURE_API_ENDPOINT, params |-> EmptyDict]
NextRequest(c) == [url |-> c["links"]["next"], params |-> EmptyDict]
\* return content["aggregations"]
\* (variants: one bucket only; the whole body)
AggregateResultSummary(c) == c["aggregations"]["citation_summary"]
AggregateResultBody(c) == c
AggregateResult(c) == c["aggregations"]
\* return content["hits"]["total"]
CountResult(c) == c["hits"]["total"]
\* backoff.expo (base 2, factor 1): the n-th value, n = 1, 2, ...
\* (variant: the first value is the base)
ExpoFromBase(n) == 2 ^ n
Expo(n) == 2 ^ (n - 1)
\* on_exception: give up when this was the max_tries-th call
\* (variant: off by one, an 11th call is made)
MaxTriesExceededLate(t) == t > MaxTries
MaxTriesExceeded(t) == t = MaxTries

\* the page a well-formed body is, as the server's log keeps it
PageOf(b) == [hits |-> b["hits"]["hits"],
              next |-> IF HasNext(b) THEN b["links"]["next"] ELSE "none"]
LogPage(b) == IF "hits" \in DOMAIN b /\ "hits" \in DOMAIN b["hits"]
              THEN Append(pages, PageOf(b)) ELSE pages

\* a call starts from the caller's idle state, with fresh locals
StartCall(o, q, f) ==
    /\ op = "idle"
    /\ op' = o /\ query' = q /\ facets' = f
    /\ UNCHANGED <<waits, requests, status, nerr, content, idx, pulls,
                   delivered, pages, outcome, result>>

\* a call has ended (returned, raised, or its generator was dropped)
Ended == pc \in {"done", "abandoned"}

\* the locals of an ended call are gone
ResetCall ==
    /\ op' = "idle" /\ pc' = "idle"
    /\ query' = "tc core" /\ facets' = NoneFacets
    /\ tries' = 0 /\ waits' = <<>> /\ requests' = <<>> /\ status' = 0
    /\ nerr' = 0 /\ content' = EmptyDict /\ idx' = 0 /\ pulls' = 0
    /\ delivered' = <<>> /\ pages' = <<>> /\ outcome' = "none"
    /\ result' = NoResult

\* the caller is done with the call and its value: nothing of it is kept
Return ==
    /\ Ended
    /\ ResetCall
    /\ UNCHANGED xvars

(* ------------------- perform_inspire_literature_search ---------------- *)
\* Calling the decorated generator function: the decorator calls the function
\* once, which only creates the generator (no line of the body runs), and
\* returns that generator to the caller.
\* (variant: a plain function, whose body starts running at the call)
CallSearchEager(q, f) ==
    /\ StartCall("search", q, f)
    /\ tries' = 1
    /\ pc' = "get_first"
    /\ UNCHANGED xvars
CallSearch(q, f) ==
    /\ StartCall("search", q, f)
    /\ tries' = 1
    /\ pc' = "created"
    /\ UNCHANGED xvars

\* the consumer asks for the next record: the generator resumes
ConsumerNext ==
    /\ op = "search" /\ pc \in {"created", "yielded"}
    /\ pulls' = pulls + 1
    /\ pc' = IF pc = "created" THEN "get_first" ELSE "iter"
    /\ UNCHANGED <<op, query, facets, tries, waits, requests, status, nerr,
                   content, idx, delivered, pages, outcome, result>>
    /\ UNCHANGED xvars

\* the consumer stops consuming: the generator is never resumed
ConsumerStop ==
    /\ op = "search" /\ pc \in {"created", "yielded"}
    /\ pc' = "abandoned"
    /\ UNCHANGED <<op, query, facets, tries, waits, requests, status, nerr,
                   content, idx, pulls, delivered, pages, outcome, result>>
    /\ UNCHANGED xvars

\* session.get; raise_for_status; content = response.json(); then the head of
\* the for loop over content["hits"]["hits"]
Fetch(req) ==
    \E resp \in ServerResponses(req.url, Len(pages) + 1) :
        /\ requests' = Append(requests, req)
        /\ status' = resp.status
        /\ nerr' = nerr + (IF IsErrorStatus(resp.status) THEN 1 ELSE 0)
        /\ pages' = IF IsErrorStatus(resp.status) THEN pages ELSE LogPage(resp.body)
        /\ IF RaiseForStatus(resp.status)
           THEN /\ outcome' = "HTTPError" /\ pc' = "done"
                /\ UNCHANGED <<content, idx>>
           ELSE /\ content' = resp.body
                /\ idx' = 0
                /\ IF HasHitsHits(resp.body)
                   THEN pc' = "iter" /\ outcome' = outcome
                   ELSE pc' = "done" /\ outcome' = "KeyError"
        /\ UNCHANGED <<op, query, facets, tries, waits, pulls, delivered, result>>
        /\ UNCHANGED xvars

\* lines 50-57
SearchFirstGet ==
    /\ op = "search" /\ pc = "get_first"
    /\ Fetch([url |-> INSPIRE_LITERATURE_API_ENDPOINT,
              params |-> SearchParams(query, facets)])

\* yield result (lines 58 and 66)
\* (variants: the loop starts at the second record; only the first page's
\* loop yields)
SearchYieldOffByOne ==
    /\ op = "search" /\ pc = "iter"
    /\ idx + 1 < Len(content["hits"]["hits"])
    /\ delivered' = Append(delivered, content["hits"]["hits"][idx + 2])
    /\ idx' = idx + 1
    /\ pc' = "yielded"
    /\ UNCHANGED <<op, query, facets, tries, waits, requests, status, nerr,
                   content, pulls, pages, outcome, result>>
    /\ UNCHANGED xvars
SearchYieldFirstPageOnly ==
    /\ op = "search" /\ pc = "iter"
    /\ idx < Len(content["hits"]["hits"])
    /\ delivered' = IF Len(requests) = 1
                    THEN Append(delivered, content["hits"]["hits"][idx + 1])
                    ELSE delivered
    /\ idx' = idx + 1
    /\ pc' = IF Len(requests) = 1 THEN "yielded" ELSE "iter"
    /\ UNCHANGED <<op, query, facets, tries, waits, requests, status, nerr,
                   content, pulls, pages, outcome, result>>
    /\ UNCHANGED xvars
SearchYield ==
    /\ op = "search" /\ pc = "iter"
    /\ idx < Len(content["hits"]["hits"])
    /\ delivered' = Append(delivered, content["hits"]["hits"][idx + 1])
    /\ idx' = idx + 1
    /\ pc' = "yielded"
    /\ UNCHANGED <<op, query, facets, tries, waits, requests, status, nerr,
                   content, pulls, pages, outcome, result>>
    /\ UNCHANGED xvars

\* lines 60-65: the page is exhausted and carries a next link
SearchNextGet ==
    /\ op = "search" /\ pc = "iter"
    /\ idx = Len(content["hits"]["hits"])
    /\ HasNext(content)
    /\ Len(pages) < MaxPages
    /\ Fetch(NextRequest(content))

\* line 60: no next link, the generator returns
SearchEnd ==
    /\ op = "search" /\ pc = "iter"
    /\ idx = Len(content["hits"]["hits"])
    /\ ~HasNext(content)
    /\ outcome' = "StopIteration"
    /\ pc' = "done"
    /\ UNCHANGED <<op, query, facets, tries, waits, requests, status, nerr,
                   content, idx, pulls, delivered, pages, result>>
    /\ UNCHANGED xvars

(* ------------- the on_exception(expo, HTTPError, max_tries=10) -------- *)
\* The wrapped function raised HTTPError in the decorator's try block: the
\* error propagates when this was the max_tries-th call, else the decorator
\* sleeps and calls the function again.
\* the exception class the decorator was given: requests.exceptions.HTTPError
\* (variant: every exception is caught)
RetryableAny(exc) == TRUE
Retryable(exc) == exc = "HTTPError"
\* an exception left the wrapped function: an exception of another class
\* passes through the decorator at once
OnException(exc) ==
    IF Retryable(exc) /\ ~MaxTriesExceeded(tries')
    THEN outcome' = outcome /\ pc' = "wait"
    ELSE outcome' = exc /\ pc' = "done"
OnHTTPError == OnException("HTTPError")

\* the decorator sleeps (a jittered part of) the next value of expo, then retries
BackoffWait ==
    /\ op \in {"count", "aggregate"} /\ pc = "wait"
    /\ waits' = Append(waits, Expo(tries))
    /\ pc' = "attempt"
    /\ UNCHANGED <<op, query, facets, tries, requests, status, nerr, content,
                   idx, pulls, delivered, pages, outcome, result>>
    /\ UNCHANGED xvars

\* one call of a wrapped plain function by the decorator: one GET to url
\* with params, raise_for_status, content = response.json()
Attempt(url, params) ==
    \E resp \in ServerResponses(url, 1) :
        /\ tries' = tries + 1
        /\ requests' = Append(requests, [url |-> url, params |-> params])
        /\ status' = resp.status
        /\ nerr' = nerr + (IF IsErrorStatus(resp.status) THEN 1 ELSE 0)
        /\ IF RaiseForStatus(resp.status)
           THEN /\ OnHTTPError
                /\ UNCHANGED <<content, result>>
           ELSE /\ content' = resp.body
                /\ IF op = "count"
                   THEN IF HasHitsTotal(resp.body)
                        THEN /\ result' = CountResult(resp.body)
                             /\ outcome' = "returned" /\ pc' = "done"
                        ELSE /\ result' = result
                             /\ OnException("KeyError")
                   ELSE IF "aggregations" \in DOMAIN resp.body
                        THEN /\ result' = AggregateResult(resp.body)
                             /\ outcome' = "returned" /\ pc' = "done"
                        ELSE /\ result' = result
                             /\ OnException("KeyError")
        /\ UNCHANGED <<op, query, facets, waits, idx, pulls, delivered, pages>>
        /\ UNCHANGED xvars

(* ---------------- perform_inspire_literature_aggregation -------------- *)
\* the decorator starts counting its calls of the function at 0
BeginAggregate(q, f) ==
    /\ StartCall("aggregate", q, f)
    /\ tries' = 0
    /\ pc' = "attempt"
CallAggregate(q, f) ==
    /\ BeginAggregate(q, f)
    /\ UNCHANGED xvars

AggregateAttempt ==
    /\ op = "aggregate" /\ pc = "attempt"
    /\ Attempt(INSPIRE_FACET_API_ENDPOINT, SearchParams(query, facets))

\* result["citation_summary"], as get_citations reads the returned mapping
CitationSummary(r) == r["citation_summary"]

(* ------------------- count_inspire_literature_search ------------------ *)
\* (variant: the decorator's counter outlives the call)
CallCountCarry(q, f) ==
    /\ StartCall("count", q, f)
    /\ tries' = prevNerr
    /\ pc' = "attempt"
    /\ UNCHANGED xvars
BeginCount(q, f) ==
    /\ StartCall("count", q, f)
    /\ tries' = 0
    /\ pc' = "attempt"
CallCount(q, f) ==
    /\ BeginCount(q, f)
    /\ UNCHANGED xvars

CountAttempt ==
    /\ op = "count" /\ pc = "attempt"
    /\ Attempt(INSPIRE_LITERATURE_API_ENDPOINT, CountParams(query, facets))

(* ------------------------------ the system ---------------------------- *)
Next ==
    \/ \E q \in Queries, f \in FacetArgs : CallSearch(q, f)
    \/ ConsumerNext
    \/ ConsumerStop
    \/ SearchFirstGet
    \/ SearchYield
    \/ SearchNextGet
    \/ SearchEnd
    \/ \E q \in Queries, f \in FacetArgs : CallAggregate(q, f)
    \/ AggregateAttempt
    \/ \E q \in Queries, f \in FacetArgs : CallCount(q, f)
    \/ CountAttempt
    \/ BackoffWait
    \/ Return

Spec == Init /\ [][Next]_vars

(* ----------------------------- properties ----------------------------- *)
\* the records of a sequence of pages, page after page
RECURSIVE Flatten(_)
Flatten(ps) == IF ps = <<>> THEN <<>> ELSE ps[1].hits \o Flatten(Tail(ps))
IsPrefix(a, b) == Len(a) <= Len(b) /\ a = SubSeq(b, 1, Len(a))
\* the first request of a call carries q and every facet
CarriesQueryAndFacets(params) ==
    /\ "q" \in DOMAIN params
    /\ \A k \in DOMAIN FacetsOr(facets) : k \in DOMAIN params /\ params[k] = FacetsOr(facets)[k]
    /\ ("q" \notin DOMAIN FacetsOr(facets) => params["q"] = query)

\* C1: a search consumed to its end over a chain of pages, no request
\* failing, has yielded exactly the records of page 1, page 2, ..., page k
\* in their order; while it runs, what was yielded is a prefix of that.
C1_YieldsPagesInOrder ==
    op = "search" =>
        /\ IsPrefix(delivered, Flatten(pages))
        /\ (outcome = "StopIteration" => delivered = Flatten(pages))
C1_Witness ==
    /\ op = "search" /\ outcome = "StopIteration"
    /\ Len(pages) = MaxPages /\ Len(delivered) >= 3

\* C2: a search consumed to its end issued exactly one request per page: the
\* first to the literature endpoint with q and the facets, each later one to
\* the previous page's links.next; it ended at the first page without next.
C2_OneRequestPerPage ==
    (op = "search" /\ outcome = "StopIteration") =>
        /\ Len(requests) = Len(pages)
        /\ requests[1].url = INSPIRE_LITERATURE_API_ENDPOINT
        /\ CarriesQueryAndFacets(requests[1].params)
        /\ DOMAIN requests[1].params = {"q"} \cup DOMAIN FacetsOr(facets)
        /\ \A i \in 2..Len(requests) :
              requests[i] = [url |-> pages[i - 1].next, params |-> EmptyDict]
        /\ \A i \in 1..Len(pages) : (pages[i].next = "none") <=> (i = Len(pages))
C2_Witness ==
    /\ op = "search" /\ outcome = "StopIteration"
    /\ Len(requests) = MaxPages
    /\ requests[2].url # requests[3].url

\* the value a well-formed successful response holds for the call
WellFormed(c) == IF op = "count" THEN HasHitsTotal(c) ELSE "aggregations" \in DOMAIN c
ValueOf(c) == IF op = "count" THEN c["hits"]["total"] ELSE c["aggregations"]

\* C3: in count and aggregate, N < 10 error answers followed by a successful
\* one make the call return the value of the successful response after
\* exactly N+1 requests; the call is not given up before.
C3_SucceedsAfterErrors ==
    op \in {"count", "aggregate"} =>
        /\ (IsErrorStatus(status) /\ nerr < MaxTries) => pc \in {"wait", "attempt"}
        /\ (status # 0 /\ ~IsErrorStatus(status)) =>
              /\ pc = "done"
              /\ Len(requests) = nerr + 1
              /\ nerr < MaxTries
              /\ WellFormed(content) =>
                    outcome = "returned" /\ result = ValueOf(content)
C3_Witness ==
    /\ op = "count" /\ outcome = "returned"
    /\ nerr = MaxTries - 1 /\ Len(requests) = MaxTries /\ result = 42

\* C4: one count or aggregate call never issues more than 10 requests; when
\* every answer is an HTTP error the call ends after exactly 10 requests
\* with the HTTP error and no value.
C4_AtMostTenAttempts ==
    op \in {"count", "aggregate"} =>
        /\ Len(requests) <= MaxTries
        /\ tries = Len(requests)
        /\ (pc = "done" /\ nerr = Len(requests)) =>
              /\ Len(requests) = MaxTries
              /\ outcome = "HTTPError"
              /\ result = NoResult
        /\ outcome = "HTTPError" => nerr = MaxTries
C4_Witness ==
    /\ op = "aggregate" /\ outcome = "HTTPError"
    /\ Len(requests) = MaxTries /\ Len(waits) = MaxTries - 1

\* C5: within a search, a page request answered with an HTTP error is
\* re-issued, 10 attempts for that page, before the error reaches the
\* consumer.
C5_PageFetchRetried ==
    (op = "search" /\ outcome = "HTTPError") =>
        Len(requests) - Len(pages) = MaxTries

\* C6 (as claimed): when a page fetch of a search fails, the consumer was
\* given no record of the earlier pages.
C6_NoPartialData ==
    (op = "search" /\ outcome = "HTTPError") => delivered = <<>>
\* C6 (amended): when the fetch of page n raises the HTTP error to the
\* consumer the sequence ends there; the consumer has received every record
\* of pages 1..n-1, in order, and nothing else.
C6_AbortAfterEarlierPages ==
    (op = "search" /\ outcome = "HTTPError") =>
        /\ pc = "done"
        /\ Len(requests) = Len(pages) + 1
        /\ delivered = Flatten(pages)
C6_Witness ==
    /\ op = "search" /\ outcome = "HTTPError"
    /\ Len(pages) = 2 /\ Len(delivered) >= 2

\* C7: whatever the facets, a count that succeeds issued one request per
\* attempt, each to the literature endpoint with size=1, q and the facets,
\* and returned hits.total of the response, following no next link.
C7_CountSendsSizeOne ==
    (op = "count" /\ outcome = "returned") =>
        /\ Len(requests) = nerr + 1
        /\ \A i \in 1..Len(requests) :
              /\ requests[i].url = INSPIRE_LITERATURE_API_ENDPOINT
              /\ "q" \in DOMAIN requests[i].params
              /\ "size" \in DOMAIN requests[i].params
              /\ requests[i].params["size"] = "1"
        /\ result = content["hits"]["total"]

\* C8: an aggregate that succeeds issued one request per attempt (exactly one
\* when no answer was an error), each to the facets endpoint with q and the
\* facets, and returned the aggregations field of the response unchanged.
C8_AggregateVerbatim ==
    (op = "aggregate" /\ outcome = "returned") =>
        /\ Len(requests) = nerr + 1
        /\ \A i \in 1..Len(requests) :
              /\ requests[i].url = INSPIRE_FACET_API_ENDPOINT
              /\ CarriesQueryAndFacets(requests[i].params)
        /\ result = content["aggregations"]
C8_Witness ==
    /\ op = "aggregate" /\ outcome = "returned" /\ nerr = 0
    /\ Len(requests) = 1
    /\ DOMAIN result = {"citation_summary", "earliest_date"}
    /\ HasNext(content)

\* the response has the shape {"aggregations": {"citation_summary": X}}
OnlyCitationSummary(c) ==
    "aggregations" \in DOMAIN c /\ DOMAIN c["aggregations"] = {"citation_summary"}

\* C9 (as claimed): against {"aggregations": {"citation_summary": X}} the
\* aggregate returns X.
C9_ReturnsSummary ==
    (op = "aggregate" /\ outcome = "returned" /\ OnlyCitationSummary(content)) =>
        result = content["aggregations"]["citation_summary"]
\* C9 (amended): against {"aggregations": {"citation_summary": X}} the
\* aggregate returns the mapping {"citation_summary": X}; X is what its
\* caller get_citations reads under the key citation_summary.
C9_ReturnsMappingHoldingSummary ==
    (op = "aggregate" /\ outcome = "returned" /\ OnlyCitationSummary(content)) =>
        /\ result = [citation_summary |-> content["aggregations"]["citation_summary"]]
        /\ CitationSummary(result) = content["aggregations"]["citation_summary"]
C9_Witness ==
    /\ op = "aggregate" /\ outcome = "returned" /\ OnlyCitationSummary(content)
    /\ CitationSummary(result) = Stats(120, 12)

\* C10: the search is pull-driven: no request before the first pull, at most
\* one record per pull, a request only while a pull is unanswered, page n+1
\* requested only after every record of page n went to the consumer, and no
\* request once the consumer has stopped.
C10_State ==
    op = "search" =>
        /\ (pulls = 0 => requests = <<>>)
        /\ Len(delivered) <= pulls /\ pulls <= Len(delivered) + 1
        /\ Len(requests) >= 2 =>
              IsPrefix(Flatten(SubSeq(pages, 1, Len(requests) - 1)), delivered)
        /\ pc = "abandoned" => pulls = Len(delivered)
C10_Step ==
    /\ (op = "search" /\ Len(requests') > Len(requests)) =>
          /\ pulls = Len(delivered) + 1
          /\ delivered = Flatten(pages)
    /\ pc = "abandoned" => Len(requests') <= Len(requests)
C10_PullDriven == []C10_State /\ [][C10_Step]_vars
C10_Witness ==
    /\ op = "search" /\ pc = "abandoned"
    /\ Len(requests) = 2 /\ HasNext(content) /\ idx = Len(content["hits"]["hits"])
    /\ Len(delivered) = 3

\* the body has every field the running function reads from it
HasConsumedFields(c) ==
    IF op = "search" THEN HasHitsHits(c)
    ELSE IF op = "count" THEN HasHitsTotal(c)
    ELSE "aggregations" \in DOMAIN c
IsSuccessStatus(s) == 200 <= s /\ s < 400

\* C12: in count and aggregate a response is followed by a retry exactly when
\* its status is an HTTP error status, 4xx and 5xx alike (and attempts are
\* left); a 2xx or 3xx response is never retried and its body is what the
\* call works on.
C12_RetryIffErrorStatus ==
    (op \in {"count", "aggregate"} /\ status # 0) =>
        /\ (pc \in {"wait", "attempt"}) <=> (IsErrorStatus(status) /\ tries < MaxTries)
        /\ IsErrorStatus(status) <=> (400 <= status /\ status < 600)
        /\ IsSuccessStatus(status) =>
              /\ pc = "done" /\ outcome \in {"returned", "KeyError"}
              /\ outcome = "returned" => result = ValueOf(content)
              /\ Len(waits) = tries - 1
C12_Witness ==
    /\ op = "count" /\ outcome = "returned" /\ status = 302
    /\ nerr = 2 /\ Len(requests) = 3

\* C13: a response with a success status that lacks a field the function
\* reads is not retried: the call ends with the KeyError right after the
\* request that got this response, and the error reaches the caller.
C13_MalformedNotRetried ==
    /\ (op # "idle" /\ IsSuccessStatus(status) /\ ~HasConsumedFields(content)) =>
          /\ pc = "done" /\ outcome = "KeyError"
          /\ result = NoResult
          /\ op \in {"count", "aggregate"} =>
                Len(requests) = nerr + 1 /\ Len(waits) = nerr
          /\ op = "search" => Len(requests) = Len(pages) + 1
    /\ outcome = "KeyError" =>
          IsSuccessStatus(status) /\ ~HasConsumedFields(content)
C13_Witness ==
    /\ op = "count" /\ outcome = "KeyError" /\ nerr = 1
    /\ "hits" \in DOMAIN content /\ "hits" \in DOMAIN content["hits"]

\* C18: in all three operations the q parameter of the first request is the
\* query argument, and in count its size parameter is 1, whatever the facets.
C18_FacetsNeverReplace ==
    (op # "idle" /\ requests # <<>>) =>
        /\ requests[1].params["q"] = query
        /\ op = "count" => requests[1].params["size"] = "1"

\* C19: the nominal delays slept within one count or aggregate call are
\* 1, 2, 4, ..., 256: one after each failed attempt but the tenth, so a call
\* that uses up its attempts has slept exactly 9 times.
NominalDelays == <<1, 2, 4, 8, 16, 32, 64, 128, 256>>
C19_ExponentialDelays ==
    op \in {"count", "aggregate"} =>
        /\ Len(waits) <= Len(NominalDelays)
        /\ waits = SubSeq(NominalDelays, 1, Len(waits))
        /\ Len(waits) = IF pc = "wait" THEN tries - 1
                        ELSE IF pc = "attempt" THEN tries
                        ELSE nerr - (IF outcome = "HTTPError" THEN 1 ELSE 0)
        /\ outcome = "HTTPError" => waits = NominalDelays
C19_Witness ==
    /\ op = "aggregate" /\ outcome = "HTTPError" /\ waits = NominalDelays

(* --------------------------- text formatting -------------------------- *)
\* Text is a sequence of pieces; a number formatted by an f-string becomes
\* its decimal digits.
Digits == <<"0", "1", "2", "3", "4", "5", "6", "7", "8", "9">>
RECURSIVE Str(_)
Str(n) == IF n < 10 THEN <<Digits[n + 1]>>
          ELSE Str(n \div 10) \o <<Digits[(n % 10) + 1]>>
\* f"{a}--{b}"
FmtRange(a, b) == Str(a) \o <<"--">> \o Str(b)
\* f"{year}|{count}"
RowLine(year, count) == Str(year) \o <<"|">> \o Str(count)
\* result = ["Year|Count", "---|---"]
TableHeader == << <<"Year|Count">>, <<"---|---">> >>
\* "Total: {total}", "Average: {average}"
CitationLines(total, average) ==
    << <<"Total: ">> \o Str(total), <<"Average: ">> \o Str(average) >>

(* ------------------------------ the callers --------------------------- *)
\* print_results: annual_queries and citation_queries, in insertion order
AnnualQueries ==
    << [title |-> "Total HEP", query |-> "tc core"],
       [title |-> "Total HEP (published)", query |-> "tc core and doi:*"],
       [title |-> "ALICE", query |-> "cn alice and not tc note"],
       [title |-> "ALICE (published)", query |-> "cn alice and tc p"],
       [title |-> "ATLAS", query |-> "cn atlas and not cn herschel and not tc note"],
       [title |-> "ATLAS (published)", query |-> "cn atlas and not cn herschel and tc p"],
       [title |-> "CMS", query |-> "cn cms and not tc note"],
       [title |-> "CMS (published)", query |-> "cn atlas and not cn herschel and tc p"],
       [title |-> "LHCb", query |-> "cn lhcb and not tc note"],
       [title |-> "LHCb (published)", query |-> "cn lhcb and not tc note and tc p"] >>
CitationQueries ==
    << [title |-> "Citations HEP (published)", query |-> "tc core and tc p"],
       [title |-> "Citations theory (published)",
        query |-> "tc core and tc p and (inspire_categories.term:Theory-HEP or inspire_categories.term:Phenomenology-HEP or inspire_categories.term:\"Gravitation and Cosmology\" or inspire_categories.term:\"Math and Math Physics\" or inspire_categories.term:Theory-Nucl or inspire_categories.term:Lattice)"],
       [title |-> "Citations experiment (published)",
        query |-> "tc core and tc p and (inspire_categories.term:Experiment-HEP or inspire_categories.term:Instrumentation or inspire_categories.term:Accelerators or inspire_categories.term:Experiment-Nucl)"],
       [title |-> "Citations ALICE (published)", query |-> "cn alice and tc p"],
       [title |-> "Citations ATLAS (published)",
        query |-> "cn atlas and not cn herschel and tc p"],
       [title |-> "Citations CMS (published)", query |-> "cn cms and tc p"],
       [title |-> "Citations LHCb (published)", query |-> "cn lhcb and tc p"],
       [title |-> "Citations LHC (published)",
        query |-> "(cn alice or cn atlas or cn cms or cn lhcb) and not cn herschel and tc p"] >>
Sections == AnnualQueries \o CitationQueries

\* the year ranges YEARS may be configured as: the one of the source, and
\* ranges of two years and of one year
YearRanges == {Range(a, StopYear) : a \in {FirstYear, StopYear - 2, StopYear - 1}}

\* print_results has started: its first get_annual_counts is at its first year
InitReport ==
    /\ InitCall
    /\ prevNerr = 0
    /\ years \in YearRanges
    /\ rpc = "annual"
    /\ section = 1
    /\ yearIdx = 1
    /\ rows = <<>>
    /\ callLog = <<>>
    /\ printed = <<>>
    /\ graph = EmptyDict

\* facets={"earliest_date": f"{year}--{year}"}
\* (variant: the range runs from the first year to the year)
AnnualFacetsFromFirst(y) == SomeFacets("earliest_date" :> FmtRange(years[1], y))
AnnualFacets(y) == SomeFacets("earliest_date" :> FmtRange(y, y))

\* annual_counts: the loop calls count_inspire_literature_search for its year
AnnualCount ==
    /\ rpc = "annual" /\ yearIdx <= Len(years)
    /\ BeginCount(Sections[section].query, AnnualFacets(years[yearIdx]))
    /\ rpc' = "counting"
    /\ UNCHANGED <<prevNerr, years, section, yearIdx, rows, callLog, printed, graph>>

\* annual_counts yields (year, hits); format_annual_counts appends its line
AnnualYield ==
    /\ rpc = "counting" /\ pc = "done" /\ outcome = "returned"
    /\ rows' = Append(rows, RowLine(years[yearIdx], result))
    /\ callLog' = Append(callLog, [query |-> query, facets |-> facets,
                                   value |-> result])
    /\ yearIdx' = yearIdx + 1
    /\ rpc' = "annual"
    /\ ResetCall
    /\ UNCHANGED <<prevNerr, years, section, printed, graph>>

\* annual_counts is exhausted: the table is joined and printed, and
\* print_results goes on to its next query
AnnualPrint ==
    /\ rpc = "annual" /\ yearIdx > Len(years)
    /\ printed' = Append(printed, [title |-> Sections[section].title,
                                   lines |-> TableHeader \o rows])
    /\ rows' = <<>>
    /\ callLog' = <<>>
    /\ yearIdx' = 1
    /\ section' = section + 1
    /\ rpc' = IF section = Len(AnnualQueries) THEN "cite" ELSE "annual"
    /\ UNCHANGED <<cvars, prevNerr, years, graph>>

\* get_citations: first_year = next(years); for last_year in years: pass
\* binds last_year only when a second year exists
LastYearBound(ys) == Len(ys) >= 2
CitationFacets(ys) ==
    SomeFacets(("earliest_date" :> FmtRange(ys[1], ys[Len(ys)]))
               @@ ("facet_name" :> "citation-summary"))

\* get_citations up to its call of perform_inspire_literature_aggregation
GetCitations ==
    /\ rpc = "cite"
    /\ IF LastYearBound(years)
       THEN /\ BeginAggregate(Sections[section].query, CitationFacets(years))
            /\ rpc' = "aggregating"
       ELSE /\ outcome' = "UnboundLocalError"
            /\ rpc' = "crashed"
            /\ UNCHANGED <<op, query, facets, pc, tries, waits, requests, status,
                           nerr, content, idx, pulls, delivered, pages, result>>
    /\ UNCHANGED <<prevNerr, years, section, yearIdx, rows, callLog, printed, graph>>

\* citation_stats = result["citation_summary"]["citations"]["buckets"]["all"]
CitationStats(r) == CitationSummary(r)["citations"]["buckets"]["all"]

\* get_citations returns (total, average) and print_results prints them
CitePrint ==
    /\ rpc = "aggregating" /\ pc = "done" /\ outcome = "returned"
    /\ printed' = Append(printed,
          [title |-> Sections[section].title,
           lines |-> CitationLines(CitationStats(result)["citations_count"]["value"],
                                   CitationStats(result)["average_citations"]["value"])])
    /\ callLog' = <<[query |-> query, facets |-> facets, value |-> result]>>
    /\ section' = section + 1
    /\ rpc' = IF section = Len(Sections) THEN "finished" ELSE "cite"
    /\ ResetCall
    /\ UNCHANGED <<prevNerr, years, yearIdx, rows, graph>>

\* a query function raised: nothing catches the exception, the process ends
\* (variant: the exception is caught and the loop goes on with the next query)
CrashSkipSection ==
    /\ rpc \in {"counting", "aggregating"} /\ pc = "done"
    /\ outcome \in {"HTTPError", "KeyError"}
    /\ section < Len(Sections)
    /\ section' = section + 1
    /\ rpc' = IF section < Len(AnnualQueries) THEN "annual" ELSE "cite"
    /\ yearIdx' = 1 /\ rows' = <<>> /\ callLog' = <<>>
    /\ ResetCall
    /\ UNCHANGED <<prevNerr, years, printed, graph>>
Crash ==
    /\ rpc \in {"counting", "aggregating"} /\ pc = "done"
    /\ outcome \in {"HTTPError", "KeyError"}
    /\ rpc' = "crashed"
    /\ UNCHANGED <<cvars, prevNerr, years, section, yearIdx, rows, callLog,
                   printed, graph>>

NextReport ==
    \/ AnnualCount
    \/ CountAttempt
    \/ BackoffWait
    \/ AnnualYield
    \/ AnnualPrint
    \/ GetCitations
    \/ AggregateAttempt
    \/ CitePrint
    \/ Crash

SpecReport == InitReport /\ [][NextReport]_vars

(* ------------------- consecutive count / aggregate calls -------------- *)
\* The caller takes the outcome of a count or aggregate call and goes on to
\* its next call (the loops of annual_counts and print_results); the history
\* keeps how many error answers the ended call absorbed.
NextCall ==
    /\ Ended /\ op \in {"count", "aggregate"}
    /\ ResetCall
    /\ prevNerr' = nerr
    /\ UNCHANGED <<years, rpc, section, yearIdx, rows, callLog, printed, graph>>

NextCalls ==
    \/ \E q \in Queries, f \in FacetArgs : CallCount(q, f)
    \/ CountAttempt
    \/ \E q \in Queries, f \in FacetArgs : CallAggregate(q, f)
    \/ AggregateAttempt
    \/ BackoffWait
    \/ NextCall

SpecCalls == Init /\ [][NextCalls]_vars

\* the request the running call makes at each attempt
OwnRequest ==
    IF op = "count"
    THEN [url |-> INSPIRE_LITERATURE_API_ENDPOINT,
          params |-> DictMerge(("q" :> query) @@ ("size" :> "1"), FacetsOr(facets))]
    ELSE [url |-> INSPIRE_FACET_API_ENDPOINT,
          params |-> DictMerge("q" :> query, FacetsOr(facets))]

\* C11: in a sequence of count / aggregate calls every call has its own 10
\* attempts: it counts only its own requests, goes on retrying until it has
\* itself met 10 error answers, whatever the call before it absorbed, and
\* every request it issues is its own.
C11_FreshBudgetPerCall ==
    op \in {"count", "aggregate"} =>
        /\ tries = Len(requests)
        /\ Len(requests) <= MaxTries
        /\ outcome = "HTTPError" => nerr = MaxTries
        /\ (IsErrorStatus(status) /\ nerr < MaxTries) => pc \in {"wait", "attempt"}
        /\ \A i \in 1..Len(requests) : requests[i] = OwnRequest
C11_Witness ==
    /\ op = "count" /\ outcome = "returned"
    /\ prevNerr = MaxTries - 1 /\ nerr = MaxTries - 1
    /\ Len(requests) = MaxTries

\* C15: an unrecoverable failure ends print_results where it happens: the
\* sections before it are printed in full and stay, the failing section
\* prints nothing, nothing is requested or printed afterwards; sections are
\* printed in their listed order, the 10 annual ones before the 8 citation
\* ones, and a run without failure prints all 18.
C15_State ==
    rpc # "off" =>
        /\ Len(printed) = section - 1
        /\ \A i \in 1..Len(printed) :
              /\ printed[i].title = Sections[i].title
              /\ Len(printed[i].lines) =
                    IF i <= Len(AnnualQueries) THEN 2 + Len(years) ELSE 2
        /\ rpc = "crashed" => section <= Len(Sections)
        /\ rpc = "finished" =>
              /\ Len(printed) = 18
              /\ printed[10].title = "LHCb (published)"
              /\ printed[11].title = "Citations HEP (published)"
C15_Step ==
    /\ IsPrefix(printed, printed')
    /\ rpc = "crashed" => (rpc' = "crashed" /\ printed' = printed /\ requests' = requests)
C15_FailureEndsTheRun == []C15_State /\ [][C15_Step]_vars
C15_Witness ==
    /\ rpc = "crashed" /\ outcome = "HTTPError" /\ years = YEARS
    /\ section = 3 /\ yearIdx = 5 /\ Len(rows) = 4 /\ Len(printed) = 2

\* C16: annual_counts produces one (year, hits) pair per configured year, in
\* ascending order, each from one count call whose earliest_date facet is
\* "<year>--<year>" for that year; the call for a year starts only when the
\* pairs of all years before it have been produced. For YEARS: 13 pairs,
\* 2008 to 2020.
C16_State ==
    rpc \in {"annual", "counting"} =>
        /\ Len(rows) = yearIdx - 1
        /\ Len(callLog) = yearIdx - 1
        /\ \A i \in 1..Len(rows) :
              /\ rows[i] = Str(years[1] + i - 1) \o <<"|">> \o Str(callLog[i].value)
              /\ callLog[i].query = Sections[section].query
              /\ callLog[i].facets.given
              /\ callLog[i].facets.map =
                    [earliest_date |-> Str(years[1] + i - 1) \o <<"--">>
                                          \o Str(years[1] + i - 1)]
        /\ rpc = "counting" =>
              /\ yearIdx <= Len(years)
              /\ query = Sections[section].query
              /\ facets.map = [earliest_date |-> Str(years[1] + yearIdx - 1) \o <<"--">>
                                                    \o Str(years[1] + yearIdx - 1)]
        /\ (years = YEARS /\ yearIdx > Len(years)) =>
              /\ Len(rows) = 13
              /\ rows[1] = <<"2", "0", "0", "8", "|", "4", "2">>
              /\ rows[13] = <<"2", "0", "2", "0", "|", "4", "2">>
              /\ callLog[13].facets.map["earliest_date"] =
                    <<"2", "0", "2", "0", "--", "2", "0", "2", "0">>
C16_Witness ==
    /\ rpc = "annual" /\ years = YEARS /\ section = 2
    /\ yearIdx = 14 /\ Len(rows) = 13 /\ Len(callLog) = 13

\* the smallest and the largest year of a range
MinYear(ys) == CHOOSE y \in {ys[i] : i \in DOMAIN ys} : \A i \in DOMAIN ys : y <= ys[i]
MaxYear(ys) == CHOOSE y \in {ys[i] : i \in DOMAIN ys} : \A i \in DOMAIN ys : y >= ys[i]

\* C17: for every non-empty configured year range get_citations makes one
\* aggregate call whose earliest_date facet is "<min>--<max>" of the range
\* and returns (citations_count.value, average_citations.value) of the all
\* bucket: it fails only when the aggregate call fails.
C17_CitationWindow ==
    (rpc # "off" /\ section > Len(AnnualQueries)) =>
        /\ rpc = "crashed" => outcome \in {"HTTPError", "KeyError"}
        /\ rpc = "aggregating" =>
              /\ query = Sections[section].query
              /\ facets.map["earliest_date"] =
                    Str(MinYear(years)) \o <<"--">> \o Str(MaxYear(years))
              /\ facets.map["facet_name"] = "citation-summary"
        /\ (callLog # <<>> /\ rpc \in {"cite", "finished"}) =>
              printed[Len(printed)].lines =
                 << <<"Total: ">> \o Str(callLog[1].value["citation_summary"]["citations"]
                                         ["buckets"]["all"]["citations_count"]["value"]),
                    <<"Average: ">> \o Str(callLog[1].value["citation_summary"]["citations"]
                                         ["buckets"]["all"]["average_citations"]["value"]) >>

(* ------------- the search loop against a server of fixed pages -------- *)
\* The server keeps one answer behind each URL for the whole search: the
\* endpoint and the URLs its pages name in links.next. The loop is followed
\* without the histories (requests, pages, delivered records, pulls), which
\* grow for as long as it runs.
GraphUrls == <<INSPIRE_LITERATURE_API_ENDPOINT, "next-a", "next-b">>
\* the answers the server may keep behind the u-th URL: an error, or a body
\* with or without its hits, with or without a next link
GraphResponses(u) ==
    {[status |-> 503, body |-> ErrorBody]} \cup
    {[status |-> 200, body |-> b] :
        b \in {c \in LitBodies(u) :
                 /\ "hits" \in DOMAIN c => "total" \notin DOMAIN c["hits"]
                 /\ "links" \in DOMAIN c => "next" \in DOMAIN c["links"]}}
Graphs ==
    { (GraphUrls[1] :> a) @@ (GraphUrls[2] :> b) @@ (GraphUrls[3] :> c) :
        a \in GraphResponses(1), b \in GraphResponses(2), c \in GraphResponses(3) }

\* no call made yet, the server's pages are fixed
InitLoop ==
    /\ InitCall
    /\ prevNerr = 0
    /\ years = YEARS
    /\ rpc = "off"
    /\ section = 0
    /\ yearIdx = 0
    /\ rows = <<>>
    /\ callLog = <<>>
    /\ printed = <<>>
    /\ graph \in Graphs

\* the consumer asks for the next record: the generator resumes
LoopConsumerNext ==
    /\ op = "search" /\ pc \in {"created", "yielded"}
    /\ pc' = IF pc = "created" THEN "get_first" ELSE "iter"
    /\ UNCHANGED <<op, query, facets, tries, waits, requests, status, nerr,
                   content, idx, pulls, delivered, pages, outcome, result>>
    /\ UNCHANGED xvars

\* session.get; raise_for_status; content = response.json(); then the head of
\* the for loop over content["hits"]["hits"]
GraphFetch(req) ==
    LET resp == graph[req.url] IN
        /\ status' = resp.status
        /\ IF RaiseForStatus(resp.status)
           THEN /\ outcome' = "HTTPError" /\ pc' = "done"
                /\ UNCHANGED <<content, idx>>
           ELSE /\ content' = resp.body
                /\ idx' = 0
                /\ IF HasHitsHits(resp.body)
                   THEN pc' = "iter" /\ outcome' = outcome
                   ELSE pc' = "done" /\ outcome' = "KeyError"
        /\ UNCHANGED <<op, query, facets, tries, waits, requests, nerr, pulls,
                       delivered, pages, result>>
        /\ UNCHANGED xvars

\* lines 50-57
LoopFirstGet ==
    /\ op = "search" /\ pc = "get_first"
    /\ GraphFetch([url |-> INSPIRE_LITERATURE_API_ENDPOINT,
                   params |-> SearchParams(query, facets)])

\* yield result (lines 58 and 66)
LoopYield ==
    /\ op = "search" /\ pc = "iter"
    /\ idx < Len(content["hits"]["hits"])
    /\ idx' = idx + 1
    /\ pc' = "yielded"
    /\ UNCHANGED <<op, query, facets, tries, waits, requests, status, nerr,
                   content, pulls, delivered, pages, outcome, result>>
    /\ UNCHANGED xvars

\* line 60: the page is exhausted and carries a next link, the while loop
\* is entered
LoopWhileNext ==
    /\ op = "search" /\ pc = "iter"
    /\ idx = Len(content["hits"]["hits"])
    /\ HasNext(content)
    /\ pc' = "get_next"
    /\ UNCHANGED <<op, query, facets, tries, waits, requests, status, nerr,
                   content, idx, pulls, delivered, pages, outcome, result>>
    /\ UNCHANGED xvars

\* lines 61-65: the request for the next link is answered
LoopNextGet ==
    /\ op = "search" /\ pc = "get_next"
    /\ GraphFetch(NextRequest(content))

NextLoop ==
    \/ \E q \in Queries : CallSearch(q, NoneFacets)
    \/ LoopConsumerNext
    \/ LoopFirstGet
    \/ LoopYield
    \/ LoopWhileNext
    \/ LoopNextGet
    \/ SearchEnd

\* the interpreter runs on, and the consumer keeps pulling
SpecLoop == InitLoop /\ [][NextLoop]_vars /\ WF_vars(NextLoop)

\* the chain of pages from the u-th URL reaches, within n pages, an answer
\* that ends the search: an error, a body without hits.hits, or a page
\* without a next link
RECURSIVE ChainEndsFrom(_, _)
ChainEndsFrom(url, n) ==
    IF n = 0 THEN FALSE
    ELSE LET r == graph[url] IN
         IF r.status >= 400 THEN TRUE
         ELSE IF ~("hits" \in DOMAIN r.body /\ "hits" \in DOMAIN r.body["hits"]) THEN TRUE
         ELSE IF ~("links" \in DOMAIN r.body /\ "next" \in DOMAIN r.body["links"]) THEN TRUE
         ELSE ChainEndsFrom(r.body["links"]["next"], n - 1)
ChainEnds == ChainEndsFrom(INSPIRE_LITERATURE_API_ENDPOINT, Len(GraphUrls))

\* C14 (as claimed): for every server behaviour a consumer that keeps
\* pulling reaches the end of the sequence or an error.
C14_AlwaysFinite == <>(pc = "done")

\* C14 (amended): against a server of fixed pages the consumer that keeps
\* pulling reaches the end or an error exactly when the chain of links.next
\* references from the first page ends (in a page without links.next, an
\* error answer or a body without hits.hits); when the chain leads back to
\* an earlier page the search never ends.
C14_FiniteIffChainEnds ==
    /\ ChainEnds => <>(pc = "done")
    /\ ~ChainEnds => [](pc # "done")
C14_Witness ==
    /\ pc = "done" /\ outcome = "StopIteration"
    /\ HasNext(graph[INSPIRE_LITERATURE_API_ENDPOINT].body)
    /\ graph[INSPIRE_LITERATURE_API_ENDPOINT].body["links"]["next"] = "next-b"
    /\ graph["next-b"].status = 200
    /\ HasHitsHits(graph["next-b"].body) /\ HasNext(graph["next-b"].body)
    /\ graph["next-b"].body["hits"]["hits"] = <<>>
    /\ graph["next-b"].body["links"]["next"] = "next-a"
    /\ content = graph["next-a"].body
    /\ Len(content["hits"]["hits"]) = MaxHits

====
